---- MODULE Spec2Model ----
(***************************************************************************)
(* Gravity: batch renaming.  The Transaction Executor (transaction.rs)     *)
(* renames through unique temporaries in two phases, keeps a journal,      *)
(* rolls back on failure and can undo a completed journal.  The Conflict   *)
(* Engine (engine.rs) computes a preview of a batch with its conflicts.    *)
(* A path is modelled by its final component, a sequence of one-character  *)
(* strings; all paths of a batch live in one directory.                    *)
(***************************************************************************)
EXTENDS Naturals, Sequences, FiniteSets, TLC

VARIABLES
    fs,            \* the directory: stored name -> identity of the file
    fs0,           \* the directory as it was before execute (history)
    caseSensitive, \* whether the filesystem distinguishes letter case
    plans,         \* execute's argument: sequence of <<source, target>>
    journal,       \* the TransactionJournal under construction / returned
    pc,            \* position of the caller / executor
    i,             \* index of the plan of the running forward loop
    k,             \* index of the next step of a reverse loop (rollback, undo)
    result,        \* "none", "Ok" or "Err": what execute returned
    undoResult,    \* "none", "Ok" or "Err": what undo returned
    log,           \* every fs.rename call so far (history)
    err,           \* the error execute holds or returned: the position in
                   \* log of the rename that produced it, 0 when there is none
    isCaseSensitive,        \* what FileSystem::is_case_sensitive answers
    files,                  \* generate_preview's argument: the input paths
    pipeline,               \* generate_preview's argument: the rules
    results,                \* the PreviewItems, one slot per input
    target_counts,          \* pass 2: new_path -> occurrences
    target_counts_lower,    \* pass 2: lowercased new_path -> occurrences
    lower_targets,          \* pass 2: lowercased new_path -> the new_paths
    batch_originals_lower,  \* pass 2: the lowercased original paths
    done                    \* the items the running parallel pass has finished

previewVars == <<files, pipeline, results, target_counts, target_counts_lower,
                 lower_targets, batch_originals_lower, done>>

execVars == <<fs0, plans, journal, i, k, result, undoResult, log, err>>

vars == <<fs, caseSensitive, isCaseSensitive, pc, execVars, previewVars>>

(***************************************************************************)
(* Bounds of the model.                                                    *)
(***************************************************************************)
MaxPlans == 3

MaxFiles == 2

(***************************************************************************)
(* Paths and letter case.                                                  *)
(***************************************************************************)
\* the letters of the model, lower case and upper case side by side
Lowers == <<"a", "b", "c", "l", "m", "n", "o", "p", "r", "t", "u", "x">>

Uppers == <<"A", "B", "C", "L", "M", "N", "O", "P", "R", "T", "U", "X">>

LowerChar(c) ==
    IF \E n \in DOMAIN Uppers : Uppers[n] = c
      THEN Lowers[CHOOSE n \in DOMAIN Uppers : Uppers[n] = c]
      ELSE c

UpperChar(c) ==
    IF \E n \in DOMAIN Lowers : Lowers[n] = c
      THEN Uppers[CHOOSE n \in DOMAIN Lowers : Lowers[n] = c]
      ELSE c

\* str::to_lowercase (on a base name, or on the lossy string form of a path)
to_lowercase(p) == [n \in DOMAIN p |-> LowerChar(p[n])]

\* str::to_uppercase
to_uppercase(p) == [n \in DOMAIN p |-> UpperChar(p[n])]

\* the paths the executor is exercised on
ExecPaths == {<<"a">>, <<"A">>, <<"b">>}

UuidNames == <<"u1", "u2", "u3", "u4", "u5">>

Uuids == {UuidNames[n] : n \in 1..MaxPlans}

\* temp.set_file_name(format!("gravity-{}.tmp", uuid))
TempPath(u) == <<"gravity-", u, ".tmp">>

(***************************************************************************)
(* The filesystem behind the FileSystem trait (RealFileSystem: std::fs).   *)
(* fs is a function from the stored names to the files' identities.  On a  *)
(* case-insensitive filesystem a name matches an entry up to letter case.  *)
(***************************************************************************)
SameEntry(p, q) == IF caseSensitive THEN p = q ELSE to_lowercase(p) = to_lowercase(q)

Entries(f, p) == {q \in DOMAIN f : SameEntry(p, q)}

\* FileSystem::exists
exists(f, p) == Entries(f, p) # {}

\* the directory after a successful std::fs::rename(from, to): the entry of
\* `from` is stored under the name `to`, replacing what `to` named before
RenameResult(f, from, to) ==
    LET src == CHOOSE q \in Entries(f, from) : TRUE
        keep == (DOMAIN f \ (Entries(f, from) \cup Entries(f, to))) \cup {to}
    IN  [q \in keep |-> IF q = to THEN f[src] ELSE f[q]]

\* the outcomes of FileSystem::rename: it fails when `from` does not exist,
\* and may fail with an I/O error otherwise
RenameOutcomes(f, from) == IF exists(f, from) THEN {TRUE, FALSE} ELSE {FALSE}

AfterRename(f, from, to, ok) == IF ok THEN RenameResult(f, from, to) ELSE f

LogEntry(kind, from, to, ok) ==
    [kind |-> kind, from |-> from, to |-> to, ok |-> ok,
     occupied |-> exists(fs, to) /\ ~SameEntry(from, to)]

WellFormed(S) == \A p, q \in S : SameEntry(p, q) => p = q

RECURSIVE SeqsUpTo(_, _)
SeqsUpTo(S, n) ==
    IF n = 0 THEN {<<>>}
    ELSE LET shorter == SeqsUpTo(S, n - 1)
         IN  shorter \cup {Append(s, x) : s \in {t \in shorter : Len(t) = n - 1}, x \in S}

(***************************************************************************)
(* TransactionExecutor::execute, one action per fs.rename call.            *)
(***************************************************************************)
\* bug: the journal starts out completed
EmptyJournalBornCompleted == [phase1 |-> <<>>, phase2 |-> <<>>, completed |-> TRUE]

\* lines 31-36 (the uuid `id` of the journal plays no part and is left out)
EmptyJournal == [phase1 |-> <<>>, phase2 |-> <<>>, completed |-> FALSE]

UsedTemps == {journal.phase1[j].to : j \in DOMAIN journal.phase1}

\* bug: every temporary carries the same uuid
StaleUuid == UuidNames[1]

\* Uuid::new_v4(): a version-4 uuid is random; only its freshness matters
NewUuid == CHOOSE u \in Uuids : TempPath(u) \notin UsedTemps /\ ~exists(fs, TempPath(u))

\* bug: the step is pushed before the rename's result is looked at
Phase1JournalAlways(step, ok) == [journal EXCEPT !.phase1 = Append(@, step)]

\* bug: the phase-1 loop pushes onto phase2
Phase1JournalWrongList(step, ok) ==
    IF ok THEN [journal EXCEPT !.phase2 = Append(@, step)] ELSE journal

\* lines 44-53: a phase-1 step is pushed only after its rename succeeded
Phase1Journal(step, ok) ==
    IF ok THEN [journal EXCEPT !.phase1 = Append(@, step)] ELSE journal

\* bug: phase 2 starts once the first phase-1 rename is done
Phase1DoneEarly == i > 1 \/ plans = <<>>

\* lines 39-56: the phase-1 loop ends after the last plan
Phase1Done == i > Len(plans)

\* bug: the temporaries are paired with the plans back to front
Phase2TempReversed(n) == journal.phase1[Len(journal.phase1) + 1 - n].to

\* line 58: let temp = &journal.phase1[i].to
Phase2Temp(n) == journal.phase1[n].to

\* bug: the phase-2 step is pushed the wrong way round
Phase2JournalSwapped(step, ok) ==
    IF ok THEN [journal EXCEPT !.phase2 = Append(@, [from |-> step.to, to |-> step.from])]
          ELSE journal

\* lines 60-70: a phase-2 step is pushed only after its rename succeeded
Phase2Journal(step, ok) ==
    IF ok THEN [journal EXCEPT !.phase2 = Append(@, step)] ELSE journal

\* lines 79, 85, 96, 99: self.fs.rename(&step.to, &step.from)
Reverted(step) == [from |-> step.to, to |-> step.from]

\* bug: .iter() without .rev()
FwdNth(steps, n) == steps[Len(steps) + 1 - n]

\* lines 78, 84, 95, 98: steps.iter().rev(), the step met when n remain
RevNth(steps, n) == steps[n]

\* bug: `?` in place of `let _ =`: the first failing rollback rename ends
\* the rollback and its error replaces the one execute holds
RollbackStopsAtFailure(ok) ==
    [k |-> IF ok THEN k - 1 ELSE 0, err |-> IF ok THEN err ELSE Len(log) + 1]

\* lines 79, 85: let _ = self.fs.rename(..): the result of a rollback rename
\* is dropped, the loop goes on and the error execute holds stays
AfterRollbackRename(ok) == [k |-> k - 1, err |-> err]

\* bug: the precondition of undo is not checked
UndoRefusedNever == FALSE

\* line 90: if !journal.completed { return Err(..) }
UndoRefused == ~journal.completed

\* bug: `let _ =` in place of `?`: undo goes on after a failed rename
AfterUndoRenameSuppressed(ok) == [pc |-> pc, k |-> k - 1, undoResult |-> undoResult]

\* lines 96, 99: self.fs.rename(..)?: the first failing rename ends undo
\* with its error; the steps done so far stay done
AfterUndoRename(ok) ==
    IF ok THEN [pc |-> pc, k |-> k - 1, undoResult |-> undoResult]
          ELSE [pc |-> "undone", k |-> k, undoResult |-> "Err"]

\* bug: undo reverts phase 2 only
Undo1StepsNone == <<>>

\* line 98: for step in journal.phase1.iter().rev()
Undo1Steps == journal.phase1

Init ==
    /\ caseSensitive \in BOOLEAN
    /\ \E S \in SUBSET ExecPaths :
          /\ WellFormed(S)
          /\ fs = [p \in S |-> p]
    /\ fs0 = fs
    /\ plans \in SeqsUpTo(ExecPaths \X ExecPaths, MaxPlans)
    /\ journal = EmptyJournal
    /\ pc = "phase1"
    /\ i = 1
    /\ k = 0
    /\ result = "none"
    /\ undoResult = "none"
    /\ log = <<>>
    /\ err = 0
    /\ isCaseSensitive = caseSensitive
    /\ files = <<>>
    /\ pipeline = <<>>
    /\ results = <<>>
    /\ target_counts = <<>>
    /\ target_counts_lower = <<>>
    /\ lower_targets = <<>>
    /\ batch_originals_lower = {}
    /\ done = {}

\* lines 39-54: the next phase-1 rename, source -> temporary
Phase1Rename ==
    /\ pc = "phase1"
    /\ IF Phase1Done
         THEN /\ pc' = "phase2"
              /\ i' = 1
              /\ UNCHANGED <<fs, log, journal, k, err>>
         ELSE LET original == plans[i][1]
                  temp == TempPath(NewUuid)
              IN  \E ok \in RenameOutcomes(fs, original) :
                    /\ fs' = AfterRename(fs, original, temp, ok)
                    /\ log' = Append(log, LogEntry("phase1", original, temp, ok))
                    /\ journal' = Phase1Journal([from |-> original, to |-> temp], ok)
                    /\ IF ok
                         THEN /\ i' = i + 1
                              /\ UNCHANGED <<pc, k, err>>
                         ELSE /\ pc' = "rollback1"
                              /\ k' = Len(journal'.phase1)
                              /\ err' = Len(log')
                              /\ UNCHANGED i
    /\ UNCHANGED <<previewVars, isCaseSensitive, fs0, caseSensitive, plans, result, undoResult>>

\* lines 57-74: the next phase-2 rename, temporary -> target; after the
\* last one journal.completed = true and Ok(journal)
Phase2Rename ==
    /\ pc = "phase2"
    /\ IF i > Len(plans)
         THEN /\ journal' = [journal EXCEPT !.completed = TRUE]
              /\ pc' = "returned"
              /\ result' = "Ok"
              /\ UNCHANGED <<fs, log, i, k, err>>
         ELSE LET target == plans[i][2]
                  temp == Phase2Temp(i)
              IN  \E ok \in RenameOutcomes(fs, temp) :
                    /\ fs' = AfterRename(fs, temp, target, ok)
                    /\ log' = Append(log, LogEntry("phase2", temp, target, ok))
                    /\ journal' = Phase2Journal([from |-> temp, to |-> target], ok)
                    /\ IF ok
                         THEN /\ i' = i + 1
                              /\ UNCHANGED <<pc, k, err>>
                         ELSE /\ pc' = "rollback2"
                              /\ k' = Len(journal'.phase2)
                              /\ err' = Len(log')
                              /\ UNCHANGED i
                    /\ UNCHANGED result
    /\ UNCHANGED <<previewVars, isCaseSensitive, fs0, caseSensitive, plans, undoResult>>

\* lines 83-87: rollback_phase2, one step; its result is dropped
Rollback2Step ==
    /\ pc = "rollback2"
    /\ IF k = 0
         THEN /\ pc' = "rollback1"
              /\ k' = Len(journal.phase1)
              /\ UNCHANGED <<fs, log, err>>
         ELSE LET r == Reverted(RevNth(journal.phase2, k))
              IN  \E ok \in RenameOutcomes(fs, r.from) :
                    /\ fs' = AfterRename(fs, r.from, r.to, ok)
                    /\ log' = Append(log, LogEntry("rollback2", r.from, r.to, ok))
                    /\ k' = AfterRollbackRename(ok).k
                    /\ err' = AfterRollbackRename(ok).err
                    /\ UNCHANGED pc
    /\ UNCHANGED <<previewVars, isCaseSensitive, fs0, caseSensitive, plans, journal, i, result, undoResult>>

\* lines 77-81: rollback_phase1, one step; then return Err((journal, e))
Rollback1Step ==
    /\ pc = "rollback1"
    /\ IF k = 0
         THEN /\ pc' = "returned"
              /\ result' = "Err"
              /\ UNCHANGED <<fs, log, k, err>>
         ELSE LET r == Reverted(RevNth(journal.phase1, k))
              IN  \E ok \in RenameOutcomes(fs, r.from) :
                    /\ fs' = AfterRename(fs, r.from, r.to, ok)
                    /\ log' = Append(log, LogEntry("rollback1", r.from, r.to, ok))
                    /\ k' = AfterRollbackRename(ok).k
                    /\ err' = AfterRollbackRename(ok).err
                    /\ UNCHANGED <<pc, result>>
    /\ UNCHANGED <<previewVars, isCaseSensitive, fs0, caseSensitive, plans, journal, i, undoResult>>

(***************************************************************************)
(* TransactionExecutor::undo on the journal execute returned.              *)
(***************************************************************************)
\* lines 89-92: the precondition
UndoCall ==
    /\ pc = "returned"
    /\ IF UndoRefused
         THEN /\ pc' = "undone"
              /\ undoResult' = "Err"
              /\ UNCHANGED k
         ELSE /\ pc' = "undo2"
              /\ k' = Len(journal.phase2)
              /\ UNCHANGED undoResult
    /\ UNCHANGED <<previewVars, isCaseSensitive, fs, fs0, caseSensitive, plans, journal, i, result, log, err>>

\* lines 95-97: phase 2 in reverse, `?` returns the first error
Undo2Step ==
    /\ pc = "undo2"
    /\ IF k = 0
         THEN /\ pc' = "undo1"
              /\ k' = Len(Undo1Steps)
              /\ UNCHANGED <<fs, log, undoResult>>
         ELSE LET r == Reverted(RevNth(journal.phase2, k))
              IN  \E ok \in RenameOutcomes(fs, r.from) :
                    /\ fs' = AfterRename(fs, r.from, r.to, ok)
                    /\ log' = Append(log, LogEntry("undo2", r.from, r.to, ok))
                    /\ pc' = AfterUndoRename(ok).pc
                    /\ k' = AfterUndoRename(ok).k
                    /\ undoResult' = AfterUndoRename(ok).undoResult
    /\ UNCHANGED <<previewVars, isCaseSensitive, fs0, caseSensitive, plans, journal, i, result, err>>

\* lines 98-102: phase 1 in reverse, then Ok(())
Undo1Step ==
    /\ pc = "undo1"
    /\ IF k = 0
         THEN /\ pc' = "undone"
              /\ undoResult' = "Ok"
              /\ UNCHANGED <<fs, log, k>>
         ELSE LET r == Reverted(RevNth(Undo1Steps, k))
              IN  \E ok \in RenameOutcomes(fs, r.from) :
                    /\ fs' = AfterRename(fs, r.from, r.to, ok)
                    /\ log' = Append(log, LogEntry("undo1", r.from, r.to, ok))
                    /\ pc' = AfterUndoRename(ok).pc
                    /\ k' = AfterUndoRename(ok).k
                    /\ undoResult' = AfterUndoRename(ok).undoResult
    /\ UNCHANGED <<previewVars, isCaseSensitive, fs0, caseSensitive, plans, journal, i, result, err>>

Next ==
    \/ Phase1Rename
    \/ Phase2Rename
    \/ Rollback2Step
    \/ Rollback1Step
    \/ UndoCall
    \/ Undo2Step
    \/ Undo1Step

Spec == Init /\ [][Next]_vars

(***************************************************************************)
(* Paths and file names as std::path reads them.                           *)
(***************************************************************************)
\* Option<T>: <<>> is None, <<x>> is Some(x)
None == <<>>

Some(x) == <<x>>

DotDot == <<".", ".">>

RECURSIVE LastDot(_)
\* the position of the last "." of a name, 0 when it has none
LastDot(s) ==
    IF s = <<>> THEN 0
    ELSE IF s[Len(s)] = "." THEN Len(s)
    ELSE LastDot(SubSeq(s, 1, Len(s) - 1))

\* Path::file_name: None for a path ending in ".."
file_name(path) == IF path = DotDot THEN None ELSE Some(path)

\* Path::file_stem of a file name: the part before the last dot; the whole
\* name when it has no dot or only a leading one
StemOf(name) ==
    IF LastDot(name) <= 1 THEN name ELSE SubSeq(name, 1, LastDot(name) - 1)

\* Path::extension of a file name: the part after the last dot, if any
ExtensionOf(name) ==
    IF LastDot(name) <= 1 THEN None ELSE Some(SubSeq(name, LastDot(name) + 1, Len(name)))

file_stem(path) == IF path = DotDot THEN None ELSE Some(StemOf(path))

\* PathBuf::set_file_name: the final component is replaced
set_file_name(path, name) == name

RECURSIVE nfc(_)
\* UnicodeNormalization::nfc: a letter followed by a combining mark is
\* composed (here: e + combining acute accent)
nfc(s) ==
    IF Len(s) < 2 THEN s
    ELSE IF s[1] = "e" /\ s[2] = "COMBINING_ACUTE" THEN <<"e_ACUTE">> \o nfc(SubSeq(s, 3, Len(s)))
    ELSE <<s[1]>> \o nfc(Tail(s))

\* Filename::from_path
from_path(path) ==
    IF file_name(path) = None
      THEN [ok |-> FALSE, filename |-> [base |-> <<>>, extension |-> None]]
      ELSE LET normalized == nfc(file_name(path)[1])
           IN  [ok |-> TRUE,
                filename |-> [base |-> StemOf(normalized), extension |-> ExtensionOf(normalized)]]

\* Filename::to_string
Filename_to_string(filename) ==
    IF filename.extension = None
      THEN filename.base
      ELSE filename.base \o <<".">> \o filename.extension[1]

(***************************************************************************)
(* The naming pipeline (models/mod.rs).                                    *)
(***************************************************************************)
Digits == <<"0", "1", "2", "3", "4", "5", "6", "7", "8", "9">>

\* char::is_numeric
is_numeric(c) == \E n \in DOMAIN Digits : Digits[n] = c

RECURSIVE Decimal(_)
Decimal(val) ==
    IF val < 10 THEN <<Digits[val + 1]>>
    ELSE Decimal(val \div 10) \o <<Digits[(val % 10) + 1]>>

\* format!("{:0>width$}", val)
Padded(val, width) ==
    LET d == Decimal(val)
    IN  IF Len(d) >= width THEN d ELSE [n \in 1..(width - Len(d)) |-> "0"] \o d

\* Rule::execute for the rules of the model; a RegexReplace is modelled for
\* the pattern ".*", which matches the whole base once
Rule_execute(rule, filename, context) ==
    LET base == filename.base
        newBase ==
            CASE rule.type = "case_transform" ->
                   (CASE rule.transform = "lowercase" -> to_lowercase(base)
                      [] rule.transform = "uppercase" -> to_uppercase(base)
                      [] OTHER -> base)
              [] rule.type = "regex_replace" -> rule.replacement
              [] rule.type = "counter" ->
                   base \o rule.separator
                        \o Padded(rule.start + context.index * rule.step, rule.padding)
              [] rule.type = "filter_content" ->
                   SelectSeq(base, LAMBDA c : ~is_numeric(c))
    IN  [base |-> newBase, extension |-> filename.extension]

RECURSIVE Pipeline_apply(_, _, _)
\* Pipeline::apply: the rules from left to right
Pipeline_apply(rules, original, context) ==
    IF rules = <<>> THEN original
    ELSE Pipeline_apply(Tail(rules), Rule_execute(Head(rules), original, context), context)

Lowercase == [type |-> "case_transform", transform |-> "lowercase"]

Uppercase == [type |-> "case_transform", transform |-> "uppercase"]

ReplaceAll == [type |-> "regex_replace", pattern |-> ".*", replacement |-> <<"a">>]

Counter == [type |-> "counter", padding |-> 1, start |-> 1, step |-> 1, separator |-> <<>>]

FilterNumbers == [type |-> "filter_content", filter |-> "numbers"]

\* the pipelines generate_preview is exercised with
Pipelines ==
    {<<>>, <<Lowercase>>, <<Uppercase>>, <<ReplaceAll>>, <<FilterNumbers>>, <<Counter>>,
     <<ReplaceAll, Counter>>}

\* the input paths generate_preview is exercised with
PreviewNames == {<<"a", "1">>, <<"A", "2">>, <<"a">>, <<"c", "o", "n", ".", "t">>}

\* the names the directory may hold when generate_preview is called
DiskNames == PreviewNames \cup {<<"a", "2">>}

(***************************************************************************)
(* Engine::generate_preview (engine.rs).  Passes 1 and 3 run one worker    *)
(* per item, in any order; pass 2 runs alone between them.                 *)
(***************************************************************************)
NoItem == [original_path |-> <<>>, new_path |-> <<>>, conflicts |-> <<>>, warnings |-> <<>>]

\* lines 42-71: what the pass-1 worker of input `index` (from 1) returns
Pass1Item(index) ==
    LET original_path == files[index]
        item == [original_path |-> original_path, new_path |-> original_path,
                 conflicts |-> <<>>, warnings |-> <<>>]
        parsed == from_path(original_path)
        context == [index |-> index - 1, path |-> Some(original_path)]
        new_filename == Pipeline_apply(pipeline, parsed.filename, context)
    IN  IF ~exists(fs, original_path)
          THEN [item EXCEPT !.conflicts = <<[type |-> "SourceNotFound", path |-> original_path]>>]
          ELSE IF parsed.ok
                 THEN [item EXCEPT !.new_path =
                          set_file_name(original_path, Filename_to_string(new_filename))]
                 ELSE [item EXCEPT !.warnings = <<"Failed to parse filename">>]

\* HashMap::get(key).copied().unwrap_or(0)
Count(map, key) == IF key \in DOMAIN map THEN map[key] ELSE 0

\* lines 94-98
paths_effectively_equal(item) ==
    IF isCaseSensitive
      THEN item.new_path = item.original_path
      ELSE to_lowercase(item.new_path) = to_lowercase(item.original_path)

\* bug: the target is looked up among the originals as they are spelled
in_batch_exact(item) ==
    \E n \in DOMAIN results : results[n].original_path = item.new_path

\* lines 102-108: both branches look the lowercased target up
in_batch(item) == to_lowercase(item.new_path) \in batch_originals_lower

\* lines 101-113
target_exists(item) ==
    /\ ~paths_effectively_equal(item)
    /\ exists(fs, item.new_path)
    /\ ~in_batch(item)

\* bug: every target counts as colliding with itself
collision_detected_from_one(item) ==
    IF isCaseSensitive
      THEN Count(target_counts, item.new_path) >= 1
      ELSE Count(target_counts_lower, to_lowercase(item.new_path)) >= 1

\* bug: a collision needs three items
collision_detected_above_two(item) ==
    IF isCaseSensitive
      THEN Count(target_counts, item.new_path) > 2
      ELSE Count(target_counts_lower, to_lowercase(item.new_path)) > 2

\* lines 116-120
collision_detected(item) ==
    IF isCaseSensitive
      THEN Count(target_counts, item.new_path) > 1
      ELSE Count(target_counts_lower, to_lowercase(item.new_path)) > 1

\* lines 126-135
case_collision(item) ==
    /\ ~isCaseSensitive
    /\ to_lowercase(item.new_path) \in DOMAIN lower_targets
    /\ LET others == lower_targets[to_lowercase(item.new_path)]
       IN  \E n \in DOMAIN others : others[n] # item.new_path

Digits1To9 == {Digits[n] : n \in 2..10}

\* line 150: the 22 reserved device names
reserved ==
    {<<"C", "O", "N">>, <<"P", "R", "N">>, <<"A", "U", "X">>, <<"N", "U", "L">>}
        \cup {<<"C", "O", "M", d>> : d \in Digits1To9}
        \cup {<<"L", "P", "T", d>> : d \in Digits1To9}

\* bug: the stem is compared as it is spelled
is_reserved_name_exact_case(path) ==
    LET name == IF file_stem(path) = None THEN <<>> ELSE file_stem(path)[1]
    IN  name \in reserved

\* lines 148-152
is_reserved_name(path) ==
    LET name == to_uppercase(IF file_stem(path) = None THEN <<>> ELSE file_stem(path)[1])
    IN  name \in reserved

\* lines 137-141: the name of a ReservedName conflict
ReservedNameOf(item) ==
    IF file_name(item.new_path) = None THEN <<>> ELSE file_name(item.new_path)[1]

\* lines 89-142: the conflicts the pass-3 worker appends to its item
DetectedConflicts(item) ==
    (IF target_exists(item)
       THEN <<[type |-> "TargetExists", path |-> item.new_path]>> ELSE <<>>)
    \o (IF collision_detected(item)
          THEN <<[type |-> "Collision", path |-> item.new_path]>> ELSE <<>>)
    \o (IF case_collision(item)
          THEN <<[type |-> "CaseCollision", path |-> item.new_path]>> ELSE <<>>)
    \o (IF is_reserved_name(item.new_path)
          THEN <<[type |-> "ReservedName", name |-> ReservedNameOf(item)]>> ELSE <<>>)

\* the adapters of the repository: RealFileSystem answers "not case
\* sensitive" on every filesystem, the tests' MockFS answers "case
\* sensitive" and looks names up exactly
InitPreview ==
    /\ caseSensitive \in BOOLEAN
    /\ isCaseSensitive \in BOOLEAN
    /\ isCaseSensitive => caseSensitive
    /\ \E S \in SUBSET DiskNames :
          /\ WellFormed(S)
          /\ fs = [p \in S |-> p]
    /\ fs0 = fs
    /\ files \in SeqsUpTo(PreviewNames, MaxFiles)
    /\ pipeline \in Pipelines
    /\ results = [n \in 1..Len(files) |-> NoItem]
    /\ target_counts = <<>>
    /\ target_counts_lower = <<>>
    /\ lower_targets = <<>>
    /\ batch_originals_lower = {}
    /\ done = {}
    /\ pc = "pass1"
    /\ plans = <<>>
    /\ journal = EmptyJournal
    /\ i = 1
    /\ k = 0
    /\ result = "none"
    /\ undoResult = "none"
    /\ log = <<>>
    /\ err = 0

\* lines 42-72: one worker of the parallel transformation pass
Pass1(n) ==
    /\ pc = "pass1"
    /\ n \in DOMAIN files
    /\ n \notin done
    /\ results' = [results EXCEPT ![n] = Pass1Item(n)]
    /\ done' = done \cup {n}
    /\ UNCHANGED <<fs, caseSensitive, isCaseSensitive, pc, execVars, files, pipeline,
                   target_counts, target_counts_lower, lower_targets, batch_originals_lower>>

\* bug: the aggregation starts as soon as one worker has finished
Pass1CollectedEarly == done # {} \/ files = <<>>

\* line 72: .collect() returns once every worker of pass 1 has returned
Pass1Collected == done = DOMAIN files

\* lines 75-86: the sequential aggregation, once pass 1 is collected
Pass2 ==
    /\ pc = "pass1"
    /\ Pass1Collected
    /\ LET new_paths == [n \in DOMAIN results |-> results[n].new_path]
           targets == {new_paths[n] : n \in DOMAIN new_paths}
           lowers == {to_lowercase(p) : p \in targets}
       IN  /\ target_counts' =
                [p \in targets |-> Cardinality({n \in DOMAIN new_paths : new_paths[n] = p})]
           /\ target_counts_lower' =
                [l \in lowers |->
                    Cardinality({n \in DOMAIN new_paths : to_lowercase(new_paths[n]) = l})]
           /\ lower_targets' =
                [l \in lowers |-> SelectSeq(new_paths, LAMBDA p : to_lowercase(p) = l)]
           /\ batch_originals_lower' =
                {to_lowercase(results[n].original_path) : n \in DOMAIN results}
    /\ pc' = "pass3"
    /\ done' = {}
    /\ UNCHANGED <<fs, caseSensitive, isCaseSensitive, execVars, files, pipeline, results>>

\* lines 89-142: one worker of the parallel conflict detection pass
Pass3(n) ==
    /\ pc = "pass3"
    /\ n \in DOMAIN results
    /\ n \notin done
    /\ results' = [results EXCEPT ![n].conflicts = @ \o DetectedConflicts(results[n])]
    /\ done' = done \cup {n}
    /\ UNCHANGED <<fs, caseSensitive, isCaseSensitive, pc, execVars, files, pipeline,
                   target_counts, target_counts_lower, lower_targets, batch_originals_lower>>

\* line 144: results
PreviewReturn ==
    /\ pc = "pass3"
    /\ done = DOMAIN results
    /\ pc' = "previewed"
    /\ UNCHANGED <<fs, caseSensitive, isCaseSensitive, execVars, previewVars>>

NextPreview ==
    \/ \E n \in 1..MaxFiles : Pass1(n)
    \/ Pass2
    \/ \E n \in 1..MaxFiles : Pass3(n)
    \/ PreviewReturn

SpecPreview == InitPreview /\ [][NextPreview]_vars

(***************************************************************************)
(* The commit command (gravity-cli main.rs): preview, refuse the batch if  *)
(* an item has a conflict, else execute the plans of the preview.          *)
(***************************************************************************)
\* bug: the batch is refused only when every item has a conflict
CommitRefusedWhenAllConflict ==
    /\ results # <<>>
    /\ \A n \in DOMAIN results : results[n].conflicts # <<>>

\* lines 82-91: the items with conflicts are collected; bail if there is one
CommitRefused == \E n \in DOMAIN results : results[n].conflicts # <<>>

\* lines 93-95: one plan per item, (original_path, new_path)
CommitPlans == [n \in DOMAIN results |-> <<results[n].original_path, results[n].new_path>>]

\* lines 82-98: the decision after generate_preview returned, up to the
\* call of execute
Commit ==
    /\ pc = "previewed"
    /\ IF CommitRefused
         THEN /\ pc' = "refused"
              /\ UNCHANGED <<plans, journal, i>>
         ELSE /\ pc' = "phase1"
              /\ plans' = CommitPlans
              /\ journal' = EmptyJournal
              /\ i' = 1
    /\ UNCHANGED <<fs, fs0, caseSensitive, isCaseSensitive, previewVars,
                   k, result, undoResult, log, err>>

NextCommit ==
    \/ NextPreview
    \/ Commit
    \/ Phase1Rename
    \/ Phase2Rename
    \/ Rollback2Step
    \/ Rollback1Step

SpecCommit == InitPreview /\ [][NextCommit]_vars

(***************************************************************************)
(* Vocabulary of the properties of the executor.                           *)
(***************************************************************************)
PlanCount == Len(plans)

Source(n) == plans[n][1]

Target(n) == plans[n][2]

\* distinct sources, distinct targets, each target unoccupied before
\* execute or itself a source of the batch
ConflictFree ==
    /\ \A m, n \in 1..PlanCount : m # n => ~SameEntry(Source(m), Source(n))
    /\ \A m, n \in 1..PlanCount : m # n => ~SameEntry(Target(m), Target(n))
    /\ \A n \in 1..PlanCount :
          exists(fs0, Target(n)) => \E m \in 1..PlanCount : SameEntry(Target(n), Source(m))

\* the same files under the same names, names read as the filesystem reads them
FsEquiv(f, g) ==
    /\ \A q \in DOMAIN f : \E r \in DOMAIN g : SameEntry(q, r) /\ f[q] = g[r]
    /\ \A r \in DOMAIN g : \E q \in DOMAIN f : SameEntry(q, r) /\ f[q] = g[r]

Restored == FsEquiv(fs, fs0)

NoRenameFailed == \A n \in DOMAIN log : log[n].ok

RollbackKinds == {"rollback1", "rollback2"}

RollbackRenamesSucceeded == \A n \in DOMAIN log : log[n].kind \in RollbackKinds => log[n].ok

\* the positions in the log of a failed forward rename of the given phase
FailedAt(kind) == {n \in DOMAIN log : log[n].kind = kind /\ ~log[n].ok}

ExecuteReturned == pc \in {"returned", "undo2", "undo1", "undone"}

\* log[n] is the rename log[m] the other way round, issued by `kind`
Reverts(n, m, kind) ==
    /\ n \in DOMAIN log
    /\ log[n].kind = kind
    /\ log[n].from = log[m].to
    /\ log[n].to = log[m].from

\* C1: on conflict-free plans and with no rename failing, execute followed
\* by undo of the returned journal leaves the directory as it was before
\* execute: every file under its old name, no temporary left.
C1_RoundTrip ==
    (pc = "undone" /\ ConflictFree /\ NoRenameFailed)
        => (result = "Ok" /\ undoResult = "Ok" /\ Restored)

C1_Witness ==
    /\ pc = "undone"
    /\ ConflictFree
    /\ NoRenameFailed
    /\ PlanCount >= 2
    /\ Target(1) = Source(2)
    /\ Target(2) = Source(1)
    /\ Len(log) = 4 * PlanCount
    /\ fs = fs0

\* C2: when the m-th phase-1 rename fails, the m-1 completed phase-1 steps
\* are renamed back in reverse order (temporary -> source), nothing else is
\* renamed, and if those renames succeed the directory is as before execute.
C2_Phase1FailureRollsBack ==
    \A m \in FailedAt("phase1") :
        pc = "returned" =>
            /\ Len(log) = 2 * m - 1
            /\ \A j \in 1..(m - 1) : log[m - j].ok /\ Reverts(m + j, m - j, "rollback1")
            /\ RollbackRenamesSucceeded => Restored

C2_Witness ==
    /\ pc = "returned"
    /\ 3 \in FailedAt("phase1")
    /\ RollbackRenamesSucceeded
    /\ Len(log) = 5
    /\ fs = fs0

\* the order of the rollback after the q-th phase-2 rename failed at log
\* position m: phase 2 back in reverse, then all of phase 1 back in reverse
Phase2RollbackOrder(m) ==
    LET q == m - PlanCount
    IN  /\ q >= 1
        /\ Len(log) = m + (q - 1) + PlanCount
        /\ \A j \in 1..(q - 1) : Reverts(m + j, m - j, "rollback2")
        /\ \A j \in 1..PlanCount : Reverts(m + (q - 1) + j, PlanCount + 1 - j, "rollback1")

\* C3: when the q-th phase-2 rename fails, execute renames the completed
\* phase-2 steps back in reverse order, then all phase-1 steps back in
\* reverse order, returns Err with completed = FALSE and, if the rollback
\* renames succeed, leaves the directory as it was before execute.
C3_Phase2FailureRestores ==
    \A m \in FailedAt("phase2") :
        pc = "returned" =>
            /\ Phase2RollbackOrder(m)
            /\ result = "Err"
            /\ ~journal.completed
            /\ RollbackRenamesSucceeded => Restored

\* C3 on plans that keep execute's contract (conflict-free): the rollback
\* after a phase-2 failure restores the directory, swaps and chains included
Phase2FailureRestoresConflictFree ==
    \A m \in FailedAt("phase2") :
        (pc = "returned" /\ ConflictFree) =>
            /\ Phase2RollbackOrder(m)
            /\ result = "Err"
            /\ ~journal.completed
            /\ RollbackRenamesSucceeded => Restored

\* the rollback after a phase-2 failure is ordered and reported as claimed
\* on every plan list; only the restored directory depends on the plans
Phase2FailureOrderAndResult ==
    \A m \in FailedAt("phase2") :
        pc = "returned" =>
            /\ Phase2RollbackOrder(m)
            /\ result = "Err"
            /\ ~journal.completed

Phase2FailureSwapWitness ==
    /\ pc = "returned"
    /\ FailedAt("phase2") # {}
    /\ ConflictFree
    /\ PlanCount >= 2
    /\ Target(1) = Source(2)
    /\ Len(journal.phase2) >= 1
    /\ RollbackRenamesSucceeded
    /\ fs = fs0

\* C4: undo of a journal with completed = FALSE returns an error at once
\* and issues no rename: the step that answers the call leaves the directory
\* and the rename log untouched, and no undo rename is ever logged.
C4_UndoRefusesIncomplete ==
    /\ [][(pc = "returned" /\ ~journal.completed)
            => (pc' = "undone" /\ undoResult' = "Err" /\ fs' = fs /\ log' = log)]_vars
    /\ [](~journal.completed => \A n \in DOMAIN log : log[n].kind \notin {"undo1", "undo2"})

C4_Witness ==
    /\ pc = "undone"
    /\ ~journal.completed
    /\ undoResult = "Err"
    /\ Len(journal.phase1) >= 2
    /\ result = "Err"

\* C5: when no rename fails on conflict-free plans, execute ends with the
\* file that was at source n stored under target n, for every plan n; the
\* other files are untouched and no temporary is left.
C5_ExecuteMovesFiles ==
    (pc = "returned" /\ NoRenameFailed /\ ConflictFree) =>
        /\ result = "Ok"
        /\ \A n \in 1..PlanCount :
              /\ Target(n) \in DOMAIN fs
              /\ \E q \in Entries(fs0, Source(n)) : fs[Target(n)] = fs0[q]
        /\ \A q \in DOMAIN fs0 :
              (\A n \in 1..PlanCount : ~SameEntry(q, Source(n)))
                  => (q \in DOMAIN fs /\ fs[q] = fs0[q])
        /\ \A q \in DOMAIN fs :
              \/ \E n \in 1..PlanCount : q = Target(n)
              \/ q \in DOMAIN fs0 /\ \A n \in 1..PlanCount : ~SameEntry(q, Source(n))

C5_Witness ==
    /\ pc = "returned"
    /\ NoRenameFailed
    /\ ConflictFree
    /\ PlanCount = 3
    /\ Target(1) = Source(2)
    /\ Target(2) = Source(3)
    /\ Target(3) = Source(1)
    /\ Source(1) # Source(2)
    /\ result = "Ok"

\* C6: when the m-th phase-1 rename fails, the journal returned with the
\* error has m-1 phase-1 steps (the failing step is not recorded), no
\* phase-2 step and completed = FALSE.
C6_Phase1FailureJournal ==
    \A m \in FailedAt("phase1") :
        /\ Len(journal.phase1) = m - 1
        /\ Len(journal.phase2) = 0
        /\ ~journal.completed
        /\ ExecuteReturned => result = "Err"

C6_Witness ==
    /\ pc = "returned"
    /\ 2 \in FailedAt("phase1")
    /\ PlanCount = 3
    /\ Len(journal.phase1) = 1
    /\ result = "Err"

ForwardRenamesSucceeded ==
    \A n \in DOMAIN log : log[n].kind \in {"phase1", "phase2"} => log[n].ok

\* C7: in every journal execute returns, completed holds exactly when
\* phase1 and phase2 both hold one step per plan and every forward rename
\* succeeded; execute returns Ok exactly when completed holds.
C7_CompletedIff ==
    ExecuteReturned =>
        /\ journal.completed <=>
              (/\ Len(journal.phase1) = PlanCount
               /\ Len(journal.phase2) = PlanCount
               /\ ForwardRenamesSucceeded)
        /\ (result = "Ok") <=> journal.completed
        /\ result \in {"Ok", "Err"}

C7_Witness ==
    /\ pc = "returned"
    /\ journal.completed
    /\ PlanCount = 2
    /\ Len(journal.phase2) = 2
    /\ result = "Ok"

\* C8: at every point of execute and in every returned journal,
\* phase2.len() <= phase1.len() <= number of plans.
C8_JournalLengths ==
    /\ Len(journal.phase2) <= Len(journal.phase1)
    /\ Len(journal.phase1) <= PlanCount

C8_Witness ==
    /\ pc = "phase2"
    /\ Len(journal.phase2) = 1
    /\ Len(journal.phase1) = 3

\* the plans break execute's contract the ways the specification names:
\* two plans share a target, or a target is occupied by a file that is
\* not a source of the batch
PlansConflict ==
    \/ \E m, n \in 1..PlanCount : m # n /\ SameEntry(Target(m), Target(n))
    \/ \E n \in 1..PlanCount :
          /\ exists(fs0, Target(n))
          /\ \A m \in 1..PlanCount : ~SameEntry(Target(n), Source(m))

\* C15: execute on plans that contain a conflict fails fast: it issues no
\* rename, leaves the directory alone and returns an error.
C15_ExecuteRefusesConflictingPlans ==
    PlansConflict =>
        /\ log = <<>>
        /\ fs = fs0
        /\ ExecuteReturned => result = "Err"

\* execute runs two plans with one target to the end and returns Ok; the
\* file of the first plan is replaced by the file of the second
SharedTargetExecuted ==
    /\ pc = "returned"
    /\ result = "Ok"
    /\ caseSensitive
    /\ plans = << << <<"a">>, <<"b">> >>, << <<"A">>, <<"b">> >> >>
    /\ DOMAIN fs0 = {<<"a">>, <<"A">>}
    /\ DOMAIN fs = {<<"b">>}
    /\ fs[<<"b">>] = <<"A">>
    /\ Len(log) = 4

\* the renames undo has to issue on the journal: phase2 back to front,
\* then phase1 back to front, each from `to` to `from`
ExpectedUndo ==
    [n \in 1..Len(journal.phase2) |->
        [kind |-> "undo2", from |-> journal.phase2[Len(journal.phase2) + 1 - n].to,
                           to |-> journal.phase2[Len(journal.phase2) + 1 - n].from]]
    \o [n \in 1..Len(journal.phase1) |->
        [kind |-> "undo1", from |-> journal.phase1[Len(journal.phase1) + 1 - n].to,
                           to |-> journal.phase1[Len(journal.phase1) + 1 - n].from]]

\* the number of renames undo has issued so far on a completed journal
\* (execute logged two successful renames per plan before)
UndoCount == Len(log) - 2 * PlanCount

\* C18: the renames of undo on a completed journal are, in order, phase2
\* back to front then phase1 back to front, each to -> from; a failed one
\* is the last rename undo issues and undo returns Err with it; with
\* none failing undo issues them all and returns Ok.
C18_UndoOrderAndFirstFailure ==
    (journal.completed /\ pc \in {"undo2", "undo1", "undone"}) =>
        /\ UndoCount \in 0..Len(ExpectedUndo)
        /\ \A n \in 1..UndoCount :
              LET call == log[2 * PlanCount + n]
              IN  /\ call.kind = ExpectedUndo[n].kind
                  /\ call.from = ExpectedUndo[n].from
                  /\ call.to = ExpectedUndo[n].to
                  /\ ~call.ok => (n = UndoCount /\ pc = "undone" /\ undoResult = "Err")
        /\ pc = "undone" =>
              IF \A n \in 1..UndoCount : log[2 * PlanCount + n].ok
                THEN UndoCount = Len(ExpectedUndo) /\ undoResult = "Ok"
                ELSE undoResult = "Err"

C18_Witness ==
    /\ pc = "undone"
    /\ journal.completed
    /\ PlanCount = 2
    /\ Len(log) = 7
    /\ log[5].kind = "undo2" /\ log[5].ok
    /\ log[6].kind = "undo2" /\ log[6].ok
    /\ log[7].kind = "undo1" /\ ~log[7].ok
    /\ undoResult = "Err"
    /\ TempPath(UuidNames[1]) \in DOMAIN fs

\* the renames the rollback has to issue on the journal: the completed
\* phase-2 steps back to front, then the phase-1 steps back to front
ExpectedRollback ==
    [n \in 1..Len(journal.phase2) |->
        [kind |-> "rollback2", from |-> journal.phase2[Len(journal.phase2) + 1 - n].to,
                               to |-> journal.phase2[Len(journal.phase2) + 1 - n].from]]
    \o [n \in 1..Len(journal.phase1) |->
        [kind |-> "rollback1", from |-> journal.phase1[Len(journal.phase1) + 1 - n].to,
                               to |-> journal.phase1[Len(journal.phase1) + 1 - n].from]]

FailedRollbacks == {n \in DOMAIN log : log[n].kind \in RollbackKinds /\ ~log[n].ok}

\* C19: when execute returns Err, the error is the one of the failed
\* forward rename, and after that rename the rollback issued every one of
\* its renames in reverse order, whether or not some of them failed.
C19_RollbackBestEffort ==
    (ExecuteReturned /\ result = "Err") =>
        /\ err \in FailedAt("phase1") \cup FailedAt("phase2")
        /\ \A n \in FailedRollbacks : n > err
        /\ Len(journal.phase1) + Len(journal.phase2) = Len(ExpectedRollback)
        /\ Len(log) >= err + Len(ExpectedRollback)
        /\ \A n \in 1..Len(ExpectedRollback) :
              /\ log[err + n].kind = ExpectedRollback[n].kind
              /\ log[err + n].from = ExpectedRollback[n].from
              /\ log[err + n].to = ExpectedRollback[n].to

C19_Witness ==
    /\ pc = "returned"
    /\ result = "Err"
    /\ err = 6
    /\ log[6].kind = "phase2"
    /\ Len(log) = 11
    /\ FailedRollbacks = {7, 10}
    /\ log[8].ok
    /\ log[11].ok

\* C20: on conflict-free plans no forward rename of execute goes onto an
\* occupied path, and no rollback rename does as long as no rollback
\* rename has failed.
C20_NoRenameOntoOccupied ==
    ConflictFree =>
        \A n \in DOMAIN log :
            /\ log[n].kind \in {"phase1", "phase2"} => ~log[n].occupied
            /\ (log[n].kind \in RollbackKinds /\ RollbackRenamesSucceeded) => ~log[n].occupied

C20_Witness ==
    /\ pc = "returned"
    /\ result = "Ok"
    /\ ConflictFree
    /\ PlanCount = 2
    /\ Source(1) # Source(2)
    /\ Target(1) = Source(2)
    /\ Target(2) = Source(1)
    /\ \A n \in DOMAIN log : log[n].ok /\ ~log[n].occupied
    /\ fs[Source(1)] = fs0[Source(2)]

(***************************************************************************)
(* Vocabulary of the properties of the conflict engine.                    *)
(***************************************************************************)
Previewed == pc = "previewed"

Items == DOMAIN results

HasConflict(n, type) ==
    \E c \in DOMAIN results[n].conflicts : results[n].conflicts[c].type = type

AllSourcesExist == \A n \in Items : exists(fs, files[n])

NoTargetPreExists == \A n \in Items : ~exists(fs, results[n].new_path)

NamesPairwiseDistinct ==
    \A m, n \in Items : m # n => results[m].new_path # results[n].new_path

NamesPairwiseDistinctFolded ==
    \A m, n \in Items :
        m # n => to_lowercase(results[m].new_path) # to_lowercase(results[n].new_path)

RECURSIVE FirstDot(_)
\* the position of the first "." of a name, 0 when it has none
FirstDot(s) ==
    IF s = <<>> THEN 0
    ELSE IF s[1] = "." THEN 1
    ELSE LET d == FirstDot(Tail(s)) IN IF d = 0 THEN 0 ELSE d + 1

\* a reserved device name whatever the extension and the letter case
ReservedTarget(name) ==
    LET d == FirstDot(name)
        b == IF d = 0 THEN name ELSE SubSeq(name, 1, d - 1)
    IN  to_uppercase(b) \in reserved

NamesNonReserved == \A n \in Items : ~ReservedTarget(results[n].new_path)

NoConflicts == \A n \in Items : results[n].conflicts = <<>>

\* C9 as stated: every source exists, no target pre-exists, the new names
\* are pairwise distinct and not reserved; then no item has a conflict,
\* whatever the case sensitivity of the filesystem.
C9_CleanBatchNoConflicts ==
    (Previewed /\ AllSourcesExist /\ NoTargetPreExists
        /\ NamesPairwiseDistinct /\ NamesNonReserved) => NoConflicts

\* C9 amended: as above, with the new names pairwise distinct also after
\* case folding when the filesystem is reported case-insensitive.
C9_CleanBatchNoConflictsFolded ==
    (Previewed /\ AllSourcesExist /\ NoTargetPreExists
        /\ NamesPairwiseDistinct /\ NamesNonReserved
        /\ (~isCaseSensitive => NamesPairwiseDistinctFolded)) => NoConflicts

C9_Witness ==
    /\ Previewed
    /\ AllSourcesExist
    /\ NoTargetPreExists
    /\ NamesPairwiseDistinct
    /\ NamesNonReserved
    /\ ~isCaseSensitive
    /\ NamesPairwiseDistinctFolded
    /\ Len(files) = 2
    /\ NoConflicts

\* C10: whenever two inputs of a batch end up with the same new_path, the
\* conflicts of both contain Collision{path: that new_path}.
C10_SharedTargetCollision ==
    Previewed =>
        \A m, n \in Items :
            (m # n /\ results[m].new_path = results[n].new_path) =>
                \E c \in DOMAIN results[n].conflicts :
                    results[n].conflicts[c] = [type |-> "Collision", path |-> results[n].new_path]

C10_Witness ==
    /\ Previewed
    /\ Len(files) = 2
    /\ files[1] # files[2]
    /\ results[1].new_path = results[2].new_path
    /\ results[1].new_path # files[1]
    /\ HasConflict(1, "Collision")
    /\ HasConflict(2, "Collision")

\* MockFS of property_tests.rs with no file: exists is false for every path
\* and is_case_sensitive answers true
MockFSEmpty == DOMAIN fs = {} /\ isCaseSensitive

\* C11: on the empty mock filesystem, for a batch of two or more inputs and
\* the pipeline that replaces every base name by one constant, every
\* PreviewItem carries a Collision.
C11_ConstantPipelineAllCollide ==
    (Previewed /\ Len(files) >= 2 /\ pipeline = <<ReplaceAll>> /\ MockFSEmpty)
        => \A n \in Items : HasConflict(n, "Collision")

\* the constant pipeline does make every item collide when the sources
\* exist and have one extension (scenario A of the specification)
ConstantPipelineCollidesOnExistingSources ==
    (Previewed /\ Len(files) >= 2 /\ pipeline = <<ReplaceAll>> /\ AllSourcesExist
        /\ \A m, n \in Items : ExtensionOf(files[m]) = ExtensionOf(files[n]))
        => \A n \in Items : HasConflict(n, "Collision")

DifferOnlyByCase(p, q) == p # q /\ to_lowercase(p) = to_lowercase(q)

\* C12: two items whose new_paths differ only by letter case both carry
\* CaseCollision when the filesystem is case-insensitive, and neither
\* carries it when the filesystem is case-sensitive.
C12_CaseCollisionByFilesystem ==
    Previewed =>
        \A m, n \in Items :
            DifferOnlyByCase(results[m].new_path, results[n].new_path) =>
                IF caseSensitive
                  THEN ~HasConflict(m, "CaseCollision") /\ ~HasConflict(n, "CaseCollision")
                  ELSE HasConflict(m, "CaseCollision") /\ HasConflict(n, "CaseCollision")

\* the engine follows the answer of FileSystem::is_case_sensitive: C12
\* holds with "the filesystem is case-sensitive" read as that answer
CaseCollisionFollowsAdapter ==
    Previewed =>
        \A m, n \in Items :
            DifferOnlyByCase(results[m].new_path, results[n].new_path) =>
                IF isCaseSensitive
                  THEN ~HasConflict(m, "CaseCollision") /\ ~HasConflict(n, "CaseCollision")
                  ELSE HasConflict(m, "CaseCollision") /\ HasConflict(n, "CaseCollision")

CaseCollisionFollowsAdapterWitness ==
    /\ Previewed
    /\ Len(files) = 2
    /\ DifferOnlyByCase(results[1].new_path, results[2].new_path)
    /\ isCaseSensitive
    /\ ~HasConflict(1, "CaseCollision")

\* the reserved device names, case-folded
ReservedFolded == {to_lowercase(r) : r \in reserved}

\* the base name of a path (its final component without the extension)
\* case-folds to a reserved device name
TargetBaseReserved(path) == to_lowercase(StemOf(path)) \in ReservedFolded

\* C13: there are 22 reserved device names, and an item carries
\* ReservedName exactly when the base name of its new_path, extension
\* ignored and letters case-folded, is one of them.
C13_ReservedNameIff ==
    /\ Cardinality(reserved) = 22
    /\ Previewed =>
          \A n \in Items :
              HasConflict(n, "ReservedName") <=> TargetBaseReserved(results[n].new_path)

C13_Witness ==
    /\ Previewed
    /\ Len(files) = 2
    /\ results[1].new_path = <<"c", "o", "n", ".", "t">>
    /\ HasConflict(1, "ReservedName")
    /\ ~HasConflict(2, "ReservedName")
    /\ exists(fs, files[1])

\* what a strictly single-threaded run of pass 1 returns
SeqItems == [n \in DOMAIN files |-> Pass1Item(n)]

\* the conflicts of item n in a strictly single-threaded run: pass 3 on
\* the aggregates of all the pass-1 items
SeqConflicts(n) ==
    LET item == SeqItems[n]
        folded == {m \in DOMAIN files :
                      to_lowercase(SeqItems[m].new_path) = to_lowercase(item.new_path)}
        same == {m \in folded : SeqItems[m].new_path = item.new_path}
        originals == {to_lowercase(files[m]) : m \in DOMAIN files}
        found(type, field, value, b) ==
            IF b THEN <<[type |-> type] @@ (field :> value)>> ELSE <<>>
    IN  item.conflicts
        \o found("TargetExists", "path", item.new_path,
                 /\ ~paths_effectively_equal(item)
                 /\ exists(fs, item.new_path)
                 /\ to_lowercase(item.new_path) \notin originals)
        \o found("Collision", "path", item.new_path,
                 IF isCaseSensitive THEN Cardinality(same) > 1 ELSE Cardinality(folded) > 1)
        \o found("CaseCollision", "path", item.new_path,
                 ~isCaseSensitive /\ folded # same)
        \o found("ReservedName", "name", ReservedNameOf(item),
                 is_reserved_name(item.new_path))

SingleThreaded == [n \in DOMAIN files |-> [SeqItems[n] EXCEPT !.conflicts = SeqConflicts(n)]]

aggregates == <<target_counts, target_counts_lower, lower_targets, batch_originals_lower>>

\* C16: whatever the order of the workers, generate_preview returns what a
\* single-threaded run returns, one item per input in input order; the
\* aggregates are written once, after every pass-1 worker has finished and
\* before pass 3; a worker writes its own item only.
C16_SchedulingIndependent ==
    /\ [](Previewed =>
            /\ results = SingleThreaded
            /\ Len(results) = Len(files)
            /\ \A n \in Items : results[n].original_path = files[n])
    /\ [][aggregates' # aggregates
            => (pc = "pass1" /\ done = DOMAIN files /\ pc' = "pass3")]_vars
    /\ [][\A n \in Items :
              results'[n] # results[n] =>
                  /\ n \in done' \ done
                  /\ \A m \in Items \ {n} : results'[m] = results[m]]_vars

C16_Witness ==
    /\ Previewed
    /\ Len(files) = 2
    /\ files[1] # files[2]
    /\ results = SingleThreaded
    /\ HasConflict(1, "Collision")
    /\ HasConflict(2, "TargetExists")

(***************************************************************************)
(* Properties of the commit command.                                       *)
(***************************************************************************)
AnyItemHasConflict == \E n \in Items : results[n].conflicts # <<>>

PreviewRunning == pc \in {"pass1", "pass3"}

\* C14: when an item of the finished preview has a conflict, commit
\* refuses the whole batch: execute is never entered, no rename is issued
\* and the directory stays as it was.
C14_CommitRefusesWholeBatch ==
    (~PreviewRunning /\ AnyItemHasConflict) =>
        /\ pc \in {"previewed", "refused"}
        /\ log = <<>>
        /\ fs = fs0
        /\ plans = <<>>

C14_Witness ==
    /\ pc = "refused"
    /\ Len(files) = 2
    /\ exists(fs, files[1])
    /\ results[1].new_path # files[1]
    /\ results[1].conflicts = <<>>
    /\ results[2].conflicts # <<>>
    /\ log = <<>>

\* the files of the directory that are not a source of the batch
OutsideFiles == {q \in DOMAIN fs0 : \A n \in DOMAIN files : ~SameEntry(q, files[n])}

CommitExecuting == pc \in {"phase1", "phase2", "rollback2", "rollback1", "returned"}

\* C17: when the preview of a batch has no conflict and commit executes its
\* plans, every file that is not a source of the batch is still stored
\* under its name, during and after execute.
C17_CleanPreviewLosesNoFile ==
    CommitExecuting =>
        \A q \in OutsideFiles : q \in DOMAIN fs /\ fs[q] = fs0[q]

\* C17 does hold where the lookup of the filesystem is the case-folded one
\* the engine works with: on a case-insensitive filesystem
NoFileLostOnCaseInsensitive ==
    (CommitExecuting /\ ~caseSensitive) =>
        \A q \in OutsideFiles : q \in DOMAIN fs /\ fs[q] = fs0[q]

\* an outside file is replaced although the adapter answers "case
\* sensitive" and looks names up exactly: the target a2 is taken to be
\* vacated by the batch because the source A2 case-folds to it
OutsideFileLostUnderExactAdapter ==
    /\ pc = "returned"
    /\ result = "Ok"
    /\ isCaseSensitive
    /\ caseSensitive
    /\ files = << <<"A", "2">> >>
    /\ plans = << << <<"A", "2">>, <<"a", "2">> >> >>
    /\ DOMAIN fs0 = {<<"A", "2">>, <<"a", "2">>}
    /\ DOMAIN fs = {<<"a", "2">>}
    /\ fs[<<"a", "2">>] = <<"A", "2">>

\* on a case-sensitive directory holding a1 and A2 the adapter of the
\* repository answers "not case sensitive", and the targets a and A of the
\* two files both get CaseCollision
CaseCollisionOnCaseSensitiveDisk ==
    /\ Previewed
    /\ caseSensitive
    /\ ~isCaseSensitive
    /\ DOMAIN fs = {<<"a", "1">>, <<"A", "2">>}
    /\ files = << <<"a", "1">>, <<"A", "2">> >>
    /\ results[1].new_path = <<"a">>
    /\ results[2].new_path = <<"A">>
    /\ HasConflict(1, "CaseCollision")
    /\ HasConflict(2, "CaseCollision")

(***************************************************************************)
(* Properties of the single conflicts.                                     *)
(***************************************************************************)
\* the number of items of the batch whose new_path is the given path
ExactCount(path) == Cardinality({m \in Items : results[m].new_path = path})

\* C21: an item carries Collision exactly when its new_path, compared
\* exactly, occurs more than once among the new_paths of the batch,
\* whatever the case sensitivity of the filesystem.
C21_CollisionIffExactCount ==
    Previewed =>
        \A n \in Items :
            HasConflict(n, "Collision") <=> ExactCount(results[n].new_path) > 1

\* C21 holds where the adapter answers "case sensitive"
CollisionIffExactCountWhenCaseSensitive ==
    (Previewed /\ isCaseSensitive) =>
        \A n \in Items :
            HasConflict(n, "Collision") <=> ExactCount(results[n].new_path) > 1

\* where the adapter answers "not case sensitive" the count is the
\* case-folded one
CollisionIffFoldedCountOtherwise ==
    (Previewed /\ ~isCaseSensitive) =>
        \A n \in Items :
            HasConflict(n, "Collision") <=>
                Cardinality({m \in Items : to_lowercase(results[m].new_path)
                                              = to_lowercase(results[n].new_path)}) > 1

\* two existing files a1 and A2 of a case-insensitive directory get the
\* targets a and A, each occurring once, and both carry Collision
CollisionOnCaseOnlyDifference ==
    /\ Previewed
    /\ ~caseSensitive
    /\ files = << <<"a", "1">>, <<"A", "2">> >>
    /\ AllSourcesExist
    /\ results[1].new_path = <<"a">>
    /\ results[2].new_path = <<"A">>
    /\ HasConflict(1, "Collision")
    /\ HasConflict(2, "Collision")

\* new_path and original_path of item n are effectively equal: compared
\* exactly when `sensitive`, case-folded otherwise
EffectivelyEqual(n, sensitive) ==
    IF sensitive
      THEN results[n].new_path = results[n].original_path
      ELSE to_lowercase(results[n].new_path) = to_lowercase(results[n].original_path)

VacatedByBatch(n) ==
    \E m \in Items : to_lowercase(results[m].original_path) = to_lowercase(results[n].new_path)

\* C22: an item carries TargetExists exactly when its new_path is not
\* effectively equal to its original_path, exists on the filesystem and,
\* case-folded, is not the case-folded original_path of an item of the
\* batch; this with the case sensitivity the adapter answers as well as
\* with the one the filesystem has.  A rename to itself or a case-only
\* rename never carries TargetExists.
C22_TargetExistsIff ==
    Previewed =>
        \A n \in Items :
            /\ \A sensitive \in {isCaseSensitive, caseSensitive} :
                  HasConflict(n, "TargetExists") <=>
                      /\ ~EffectivelyEqual(n, sensitive)
                      /\ exists(fs, results[n].new_path)
                      /\ ~VacatedByBatch(n)
            /\ EffectivelyEqual(n, FALSE) => ~HasConflict(n, "TargetExists")

C22_Witness ==
    /\ Previewed
    /\ Len(files) = 2
    /\ \E m, n \in Items :
          /\ HasConflict(m, "TargetExists")
          /\ results[n].new_path # results[n].original_path
          /\ exists(fs, results[n].new_path)
          /\ VacatedByBatch(n)
          /\ ~HasConflict(n, "TargetExists")

SourceMissing(n) == ~exists(fs, files[n])

\* C23: an item whose source does not exist keeps new_path =
\* original_path and carries SourceNotFound{path: original_path} and no
\* other conflict.
C23_MissingSourceOnlySourceNotFound ==
    Previewed =>
        \A n \in Items :
            SourceMissing(n) =>
                /\ results[n].new_path = files[n]
                /\ results[n].conflicts = <<[type |-> "SourceNotFound", path |-> files[n]]>>

\* the part of C23 that pass 1 decides: new_path is the original path
\* (the pipeline is not applied) and SourceNotFound comes first
MissingSourceKeepsPath ==
    Previewed =>
        \A n \in Items :
            SourceMissing(n) =>
                /\ results[n].new_path = files[n]
                /\ results[n].conflicts # <<>>
                /\ results[n].conflicts[1] = [type |-> "SourceNotFound", path |-> files[n]]

\* a missing source named con.t carries ReservedName after SourceNotFound
MissingSourceWithReservedName ==
    /\ Previewed
    /\ files = << <<"c", "o", "n", ".", "t">> >>
    /\ SourceMissing(1)
    /\ Len(results[1].conflicts) = 2
    /\ results[1].conflicts[2].type = "ReservedName"

\* C24: the name of a ReservedName conflict is the base name of the
\* target, without the extension.
C24_ReservedNameCarriesBase ==
    Previewed =>
        \A n \in Items :
            \A c \in DOMAIN results[n].conflicts :
                results[n].conflicts[c].type = "ReservedName" =>
                    results[n].conflicts[c].name = StemOf(results[n].new_path)

\* what the conflict carries is the whole final component of the target
ReservedNameCarriesFileName ==
    Previewed =>
        \A n \in Items :
            \A c \in DOMAIN results[n].conflicts :
                results[n].conflicts[c].type = "ReservedName" =>
                    results[n].conflicts[c].name = results[n].new_path

ReservedNameWithExtension ==
    /\ Previewed
    /\ files = << <<"c", "o", "n", ".", "t">> >>
    /\ AllSourcesExist
    /\ pipeline = <<Uppercase>>
    /\ results[1].conflicts =
          <<[type |-> "ReservedName", name |-> <<"C", "O", "N", ".", "t">>]>>

(***************************************************************************)
(* Order of the forward renames and the journal as their log.              *)
(***************************************************************************)
ForwardKinds == {"phase1", "phase2"}

\* C25: the forward renames are issued one by one in plan order: the n-th
\* rename of the log, if of phase 1, is that of plan n and all before it
\* succeeded; a phase-2 rename comes only after one successful phase-1
\* rename per plan and takes temporary n to target n in the same order;
\* after a failed forward rename only rollback renames follow.
C25_ForwardRenamesSequential ==
    \A n \in DOMAIN log :
        /\ log[n].kind = "phase1" =>
              /\ n <= PlanCount
              /\ log[n].from = Source(n)
              /\ \A m \in 1..(n - 1) : log[m].kind = "phase1" /\ log[m].ok
        /\ log[n].kind = "phase2" =>
              /\ n \in (PlanCount + 1)..(2 * PlanCount)
              /\ \A m \in 1..PlanCount : log[m].kind = "phase1" /\ log[m].ok
              /\ \A m \in (PlanCount + 1)..(n - 1) : log[m].kind = "phase2" /\ log[m].ok
              /\ log[n].from = log[n - PlanCount].to
              /\ log[n].to = Target(n - PlanCount)
        /\ (log[n].kind \in ForwardKinds /\ ~log[n].ok) =>
              \A m \in (n + 1)..Len(log) : log[m].kind \in RollbackKinds

C25_Witness ==
    /\ pc = "returned"
    /\ PlanCount = 3
    /\ Len(log) = 9
    /\ log[4].kind = "phase2" /\ log[4].ok
    /\ log[5].kind = "phase2" /\ ~log[5].ok
    /\ log[9].kind = "rollback1"

IsPrefix(s, t) == Len(s) <= Len(t) /\ SubSeq(t, 1, Len(s)) = s

\* the step from the current state appends `step` to the list, as the
\* record of the rename of the given kind the step has just logged
Recorded(before, after, kind) ==
    after # before =>
        /\ Len(after) = Len(before) + 1
        /\ Len(log') = Len(log) + 1
        /\ log'[Len(log')].kind = kind
        /\ log'[Len(log')].ok
        /\ log'[Len(log')].from = after[Len(after)].from
        /\ log'[Len(log')].to = after[Len(after)].to

\* C26: the lists of the journal only grow, by one step at a time, each
\* step the record of a rename that has just succeeded; rollback and undo
\* leave them alone; and always phase1[n].from is the source of plan n,
\* phase2[n].from is phase1[n].to and phase2[n].to is the target of plan n.
C26_JournalAppendOnly ==
    /\ [][/\ IsPrefix(journal.phase1, journal'.phase1)
           /\ IsPrefix(journal.phase2, journal'.phase2)
           /\ Recorded(journal.phase1, journal'.phase1, "phase1")
           /\ Recorded(journal.phase2, journal'.phase2, "phase2")
           /\ pc \notin {"phase1", "phase2"} => journal' = journal]_vars
    /\ [](/\ \A n \in DOMAIN journal.phase1 : journal.phase1[n].from = Source(n)
          /\ \A n \in DOMAIN journal.phase2 :
                /\ journal.phase2[n].from = journal.phase1[n].to
                /\ journal.phase2[n].to = Target(n))

C26_Witness ==
    /\ pc = "returned"
    /\ result = "Err"
    /\ PlanCount = 3
    /\ Len(journal.phase1) = 3
    /\ Len(journal.phase2) = 1
    /\ journal.phase2[1].to = Target(1)
    /\ RollbackRenamesSucceeded
    /\ fs = fs0

====
